---- MODULE Spec2Model ----
\* Document vault: the document registry and the sharing / authorization
\* engine of DocumentService (Create, GetByID, Delete, Share, RemoveShare,
\* GetFilePath, CanAccess, Rename) over the tables created by DB.Migrate.
\*
\* Every request runs in its own goroutine; the service holds no lock and
\* opens no transaction, so the unit of atomicity is one SQL statement.
\* A call is a process that executes the statements of its method in
\* order; statements of different calls interleave freely.  The first
\* statement of every method (GetByID) is executed by the step that starts
\* the call.  The SQL statements are assumed to execute without a storage
\* failure (the `err != nil` branches that only forward a driver error).
EXTENDS Integers, FiniteSets, Sequences, TLC

VARIABLES users, documents, shares, files, now, proc, issued, resp

vars == <<users, documents, shares, files, now, proc, issued, resp>>

\* The tokens handed out so far and the last response of the token
\* service, the request gate or a listing; the document operations touch
\* neither.
gate == <<issued, resp>>

----------------------------------------------------------------------------
\* Bounds

MaxTime == 1
MaxDocs == 1

Procs == {"p1", "p2"}
UserIds == {"alice", "bob"}
Emails == {"alice@x", "bob@x", "nobody@x"}
Names == {"a.txt", "b.txt"}
Perms == {"view", "edit"}
\* permission strings a share request may carry
PermissionInputs == Perms \cup {"View", "admin"}

Times == 0..MaxTime
DocIds == 1..MaxDocs

----------------------------------------------------------------------------
\* Nullable timestamps (Go *time.Time, SQL TIMESTAMP WITH TIME ZONE NULL)

NullTime == [valid |-> FALSE, t |-> 0]
TimeAt(t) == [valid |-> TRUE, t |-> t]

\* The users table: email is UNIQUE, id is the primary key.
UserRows == {[id |-> "alice", email |-> "alice@x"], [id |-> "bob", email |-> "bob@x"]}

\* Error values of the services package
ErrNil == "nil"
ErrDocumentNotFound == "document not found"
ErrAccessDenied == "access denied"
ErrShareNotFound == "share not found"
ErrUserNotFound == "user not found"
ErrValidation == "validation_error"

----------------------------------------------------------------------------
\* Queries: each operator is one SQL statement evaluated on the tables.

\* Mutant of GetByIDFound: the lookup without AND deleted_at IS NULL.
GetByIDAny(docs, id) == id \in DOMAIN docs

\* SELECT ... FROM documents WHERE id = $1 AND deleted_at IS NULL
GetByIDFound(docs, id) == id \in DOMAIN docs /\ ~docs[id].deleted_at.valid

\* doc.FilePath = filepath.Join(uploadDir, doc.ID.String())
FilePathOf(id) == <<"uploads", id>>
NoPath == <<>>

\* SELECT id FROM users WHERE email = $1
UsersByEmail(us, email) == {u \in us : u.email = email}

\* expires_at IS NULL OR expires_at > NOW()
NotExpired(r, t) == ~r.expires_at.valid \/ r.expires_at.t > t

\* rows of document_shares WHERE document_id = $1 AND shared_with_id = $2
ShareRows(sh, d, u) == {r \in sh : r.document_id = d /\ r.shared_with_id = u}

\* Mutant of ActiveShareRows: the recipient is left out of the WHERE clause.
ActiveRowsAnyUser(sh, d, u, t) == {r \in sh : r.document_id = d /\ NotExpired(r, t)}

\* ... AND (expires_at IS NULL OR expires_at > NOW())
ActiveShareRows(sh, d, u, t) == {r \in ShareRows(sh, d, u) : NotExpired(r, t)}

\* id UUID PRIMARY KEY DEFAULT uuid_generate_v4(): a fresh identifier
NewShareId(sh) == CHOOSE n \in 1..(Cardinality(sh) + 1) : \A r \in sh : r.id # n

\* Mutant of UpsertShare: a plain INSERT, no conflict target.
InsertShare(sh, d, by, w, perm) ==
    sh \cup {[id |-> NewShareId(sh), document_id |-> d, shared_by_id |-> by,
              shared_with_id |-> w, permission |-> perm, expires_at |-> NullTime]}

\* INSERT INTO document_shares (...) VALUES ($1,$2,$3,$4)
\*   ON CONFLICT (document_id, shared_with_id) DO UPDATE SET permission = $4
UpsertShare(sh, d, by, w, perm) ==
    IF ShareRows(sh, d, w) # {}
    THEN {IF r \in ShareRows(sh, d, w) THEN [r EXCEPT !.permission = perm] ELSE r : r \in sh}
    ELSE sh \cup {[id |-> NewShareId(sh), document_id |-> d, shared_by_id |-> by,
                   shared_with_id |-> w, permission |-> perm, expires_at |-> NullTime]}

\* Mutant of DeleteShare: the DELETE matches shared_by_id instead of shared_with_id.
DeleteShareByGranter(sh, d, w) == sh \ {r \in sh : r.document_id = d /\ r.shared_by_id = w}

\* DELETE FROM document_shares WHERE document_id = $1 AND shared_with_id = $2
DeleteShare(sh, d, w) == sh \ ShareRows(sh, d, w)

\* What the share statement of a call met in document_shares for its pair:
\* no row, only an expired row, or an active row (its permission).  A ghost
\* value kept with the call; no statement of the code reads it.
SawOf(sh, d, u, t) ==
    IF ShareRows(sh, d, u) = {} THEN "norow"
    ELSE IF \A r \in ShareRows(sh, d, u) : r.expires_at.valid /\ r.expires_at.t <= t THEN "expired"
    ELSE (CHOOSE r \in ShareRows(sh, d, u) : ~(r.expires_at.valid /\ r.expires_at.t <= t)).permission

\* Mutant of ScanPermission: the permission query only finds edit shares.
ScanEditPermission(sh, d, u, t) ==
    {r.permission : r \in {x \in ActiveShareRows(sh, d, u, t) : x.permission = "edit"}}

\* SELECT permission FROM document_shares WHERE ... AND (not expired),
\* scanned into one value: the permissions QueryRow can deliver; none is
\* sql.ErrNoRows.
ScanPermission(sh, d, u, t) == {r.permission : r \in ActiveShareRows(sh, d, u, t)}

\* Mutant of CountActive: the COUNT of GetFilePath without the expiry filter.
CountAll(sh, d, u, t) == Cardinality(ShareRows(sh, d, u))

\* SELECT COUNT(1) FROM document_shares WHERE ... AND (not expired)
CountActive(sh, d, u, t) == Cardinality(ActiveShareRows(sh, d, u, t))

\* Mutant of RowsAffected: only rows that have not expired count as removed.
RowsAffectedActive(sh, d, w) == Cardinality({r \in ShareRows(sh, d, w) : ~r.expires_at.valid})

\* result.RowsAffected() of the DELETE in RemoveShare
RowsAffected(sh, d, w) == Cardinality(ShareRows(sh, d, w))

\* Mutant of SharedRows: the listing without AND d.deleted_at IS NULL.
SharedRowsAnyDocument(docs, sh, t, u) ==
    {r \in sh : /\ r.shared_with_id = u
                /\ r.document_id \in DOMAIN docs
                /\ NotExpired(r, t)}

\* FROM document_shares ds JOIN documents d ON ds.document_id = d.id
\* WHERE ds.shared_with_id = $1 AND d.deleted_at IS NULL AND (not expired)
SharedRows(docs, sh, t, u) ==
    {r \in sh : /\ r.shared_with_id = u
                /\ r.document_id \in DOMAIN docs
                /\ ~docs[r.document_id].deleted_at.valid
                /\ NotExpired(r, t)}

\* Mutant of BindShareRequest: the permission of a request is not validated.
BindAnyPermission(permission) == TRUE

\* ShareRequest.Permission, binding:"required,oneof=view edit"
BindShareRequest(permission) == permission \in {"view", "edit"}

\* Mutant of RenameAllowed: any access level may rename.
RenameAllowedAnyLevel(canAccess, permission) == canAccess

\* if !canAccess || (permission != "owner" && permission != "edit") { return ErrAccessDenied }
RenameAllowed(canAccess, permission) ==
    canAccess /\ (permission = "owner" \/ permission = "edit")

\* DocumentService.GetFilePath with all its statements run on one state of
\* the tables: what it returns for document id and caller userID.
GetFilePath(docs, sh, t, id, userID) ==
    IF ~GetByIDFound(docs, id) THEN [path |-> NoPath, err |-> ErrDocumentNotFound]
    ELSE IF docs[id].owner_id = userID THEN [path |-> FilePathOf(id), err |-> ErrNil]
    ELSE IF CountActive(sh, id, userID, t) = 0 THEN [path |-> NoPath, err |-> ErrAccessDenied]
    ELSE [path |-> FilePathOf(id), err |-> ErrNil]

\* DocumentService.CanAccess with all its statements run on one state of the
\* tables: the results it can return (QueryRow scans one of the rows found).
CanAccess(docs, sh, t, documentID, userID) ==
    IF ~GetByIDFound(docs, documentID)
    THEN {[allowed |-> FALSE, level |-> "", err |-> ErrDocumentNotFound]}
    ELSE IF docs[documentID].owner_id = userID
    THEN {[allowed |-> TRUE, level |-> "owner", err |-> ErrNil]}
    ELSE IF ScanPermission(sh, documentID, userID, t) = {}
    THEN {[allowed |-> FALSE, level |-> "", err |-> ErrNil]}
    ELSE {[allowed |-> TRUE, level |-> permission, err |-> ErrNil] :
             permission \in ScanPermission(sh, documentID, userID, t)}

----------------------------------------------------------------------------
\* Calls

NoResp == [op |-> "none"]

Idle == [op |-> "none", pc |-> "idle", doc |-> 0, caller |-> "", target |-> "",
         uid |-> "", perm |-> "", name |-> "", err |-> ErrNil, allowed |-> FALSE,
         level |-> "", path |-> NoPath, saw |-> "none", total |-> 0, list |-> {}]

CanCall(p) == proc[p].pc = "idle"

Start(op, d, caller) == [Idle EXCEPT !.op = op, !.pc = "run", !.doc = d, !.caller = caller]

Finish(c, e) == [c EXCEPT !.pc = "done", !.err = e]

\* The call of p1 keeps what it returned until p1 takes it (Return); the
\* other processes are concurrent requests whose responses nothing reads.
Observed == {"p1"}

Ret(p, c) ==
    /\ proc' = [proc EXCEPT ![p] = IF c.pc = "done" /\ p \notin Observed THEN Idle ELSE c]
    /\ UNCHANGED gate

\* Mutant of OwnerGate: the ownership test is missing.
OwnerGateAnyCaller(c, pc) ==
    IF ~GetByIDFound(documents, c.doc) THEN Finish(c, ErrDocumentNotFound)
    ELSE [c EXCEPT !.pc = pc]

\* Mutant of OwnerGate: an active edit share passes for ownership.
OwnerGateOrEditor(c, pc) ==
    IF ~GetByIDFound(documents, c.doc) THEN Finish(c, ErrDocumentNotFound)
    ELSE IF /\ documents[c.doc].owner_id # c.caller
            /\ "edit" \notin ScanPermission(shares, c.doc, c.caller, now)
         THEN Finish(c, ErrAccessDenied)
    ELSE [c EXCEPT !.pc = pc]

\* doc, err := s.GetByID(id); if err != nil { return err };
\* if doc.OwnerID != userID { return ErrAccessDenied }: the call goes on to
\* pc only when the caller owns the live document.
OwnerGate(c, pc) ==
    IF ~GetByIDFound(documents, c.doc) THEN Finish(c, ErrDocumentNotFound)
    ELSE IF documents[c.doc].owner_id # c.caller THEN Finish(c, ErrAccessDenied)
    ELSE [c EXCEPT !.pc = pc]

\* The first half of CanAccess: GetByID and the owner test.
CanAccessHead(c, ownerPc) ==
    IF ~GetByIDFound(documents, c.doc) THEN Finish(c, ErrDocumentNotFound)
    ELSE IF documents[c.doc].owner_id = c.caller
         THEN [c EXCEPT !.pc = ownerPc, !.allowed = TRUE, !.level = "owner"]
    ELSE [c EXCEPT !.pc = "query"]

Init ==
    /\ users = UserRows
    /\ documents = <<>>
    /\ shares = {}
    /\ files = {}
    /\ now = 0
    /\ proc = [p \in Procs |-> Idle]
    /\ issued = {}
    /\ resp = NoResp

\* Wall clock: time.Now() and NOW()
Tick ==
    /\ now < MaxTime
    /\ now' = now + 1
    /\ UNCHANGED <<users, documents, shares, files, proc, gate>>

\* document_shares.expires_at is a nullable column that no statement of the
\* service writes; it is set on the row from outside the service.
SetExpiry ==
    \E r \in shares, t \in 1..MaxTime :
        /\ r.expires_at # TimeAt(t)
        /\ shares' = (shares \ {r}) \cup {[r EXCEPT !.expires_at = TimeAt(t)]}
        /\ UNCHANGED <<users, documents, files, now, proc, gate>>

\* The caller takes the response of a finished call.
Return(p) ==
    /\ proc[p].pc = "done"
    /\ proc' = [proc EXCEPT ![p] = Idle]
    /\ UNCHANGED <<users, documents, shares, files, now, gate>>

\* Mutant of CleanUp: the content written stays where it is.
CleanUpNothing(fs, path) == fs

\* os.Remove(doc.FilePath) after a failed copy or a failed INSERT
CleanUp(fs, path) == fs \ {path}

\* DocumentService.Create with an allowed content type and a name that
\* sanitizes to itself.  The content is written first; a failed copy or a
\* failed INSERT removes it again.
Create(p) ==
    \E owner \in UserIds, name \in Names, outcome \in {"ok", "copy_failed", "insert_failed"} :
        LET id == Len(documents) + 1
            c == [Start("Create", id, owner) EXCEPT !.name = name]
        IN /\ CanCall(p)
           /\ id <= MaxDocs
           /\ IF outcome = "ok"
              THEN /\ documents' = Append(documents,
                          [owner_id |-> owner, name |-> name,
                           updated_at |-> TimeAt(now), deleted_at |-> NullTime])
                   /\ files' = files \cup {FilePathOf(id)}
                   /\ Ret(p, Finish(c, ErrNil))
              ELSE /\ UNCHANGED documents
                   /\ files' = CleanUp(files \cup {FilePathOf(id)}, FilePathOf(id))
                   /\ Ret(p, Finish(c, outcome))
           /\ UNCHANGED <<users, shares, now>>

\* DocumentService.GetByID
GetByID(p) ==
    \E d \in DocIds :
        /\ CanCall(p)
        /\ Ret(p, Finish(Start("GetByID", d, ""),
                         IF GetByIDFound(documents, d) THEN ErrNil ELSE ErrDocumentNotFound))
        /\ UNCHANGED <<users, documents, shares, files, now>>

\* DocumentService.Delete: GetByID and the owner test
DeleteCall(p) ==
    \E d \in DocIds, u \in UserIds :
        /\ CanCall(p)
        /\ Ret(p, OwnerGate(Start("Delete", d, u), "update"))
        /\ UNCHANGED <<users, documents, shares, files, now>>

\* UPDATE documents SET deleted_at = $1 WHERE id = $2
DeleteUpdate(p) ==
    LET c == proc[p]
    IN /\ c.op = "Delete" /\ c.pc = "update"
       /\ documents' = [documents EXCEPT ![c.doc].deleted_at = TimeAt(now)]
       /\ Ret(p, [c EXCEPT !.pc = "remove"])
       /\ UNCHANGED <<users, shares, files, now>>

\* os.Remove(doc.FilePath): a failure is printed and the call still returns nil
DeleteRemove(p) ==
    \E removed \in BOOLEAN :
        LET c == proc[p]
        IN /\ c.op = "Delete" /\ c.pc = "remove"
           /\ files' = IF removed THEN files \ {FilePathOf(c.doc)} ELSE files
           /\ Ret(p, Finish(c, ErrNil))
           /\ UNCHANGED <<users, documents, shares, now>>

\* DocumentHandler.ShareDocument when ShouldBindJSON fails on the permission:
\* 400 validation_error, and DocumentService.Share is not called.
ShareDocumentInvalid(p) ==
    \E d \in DocIds, u \in UserIds, email \in Emails, perm \in PermissionInputs :
        /\ CanCall(p)
        /\ ~BindShareRequest(perm)
        /\ Ret(p, Finish([Start("ShareDocument", d, u) EXCEPT !.target = email, !.perm = perm],
                         ErrValidation))
        /\ UNCHANGED <<users, documents, shares, files, now>>

\* DocumentHandler.ShareDocument with a request that binds, then
\* DocumentService.Share: GetByID, the owner test and
\* SELECT id FROM users WHERE email = $1.  The users table does not change
\* here, so the lookup is taken in the same step as the owner test.
ShareCall(p) ==
    \E d \in DocIds, u \in UserIds, email \in Emails, perm \in PermissionInputs :
        LET c == OwnerGate([Start("Share", d, u) EXCEPT !.target = email, !.perm = perm], "upsert")
            found == UsersByEmail(users, email)
        IN /\ CanCall(p)
           /\ BindShareRequest(perm)
           /\ Ret(p, IF c.pc = "done" THEN c
                     ELSE IF found = {} THEN Finish(c, ErrUserNotFound)
                     ELSE [c EXCEPT !.uid = (CHOOSE r \in found : TRUE).id])
           /\ UNCHANGED <<users, documents, shares, files, now>>

\* INSERT ... ON CONFLICT (document_id, shared_with_id) DO UPDATE SET permission = $4
ShareUpsert(p) ==
    LET c == proc[p]
    IN /\ c.op = "Share" /\ c.pc = "upsert"
       /\ shares' = UpsertShare(shares, c.doc, c.caller, c.uid, c.perm)
       /\ Ret(p, Finish([c EXCEPT !.saw = SawOf(shares, c.doc, c.uid, now)], ErrNil))
       /\ UNCHANGED <<users, documents, files, now>>

\* DocumentService.RemoveShare: GetByID and the owner test
RemoveShareCall(p) ==
    \E d \in DocIds, u \in UserIds, w \in UserIds :
        /\ CanCall(p)
        /\ Ret(p, OwnerGate([Start("RemoveShare", d, u) EXCEPT !.uid = w], "delete"))
        /\ UNCHANGED <<users, documents, shares, files, now>>

\* DELETE FROM document_shares ...; rows == 0 gives ErrShareNotFound
RemoveShareDelete(p) ==
    LET c == proc[p]
    IN /\ c.op = "RemoveShare" /\ c.pc = "delete"
       /\ shares' = DeleteShare(shares, c.doc, c.uid)
       /\ Ret(p, Finish([c EXCEPT !.saw = SawOf(shares, c.doc, c.uid, now)],
                        IF RowsAffected(shares, c.doc, c.uid) = 0 THEN ErrShareNotFound ELSE ErrNil))
       /\ UNCHANGED <<users, documents, files, now>>

\* DocumentService.GetFilePath: GetByID and the owner test
GetFilePathCall(p) ==
    \E d \in DocIds, u \in UserIds :
        LET c == Start("GetFilePath", d, u)
        IN /\ CanCall(p)
           /\ Ret(p, IF ~GetByIDFound(documents, d) THEN Finish(c, ErrDocumentNotFound)
                     ELSE IF documents[d].owner_id = u
                          THEN Finish([c EXCEPT !.path = FilePathOf(d)], ErrNil)
                     ELSE [c EXCEPT !.pc = "count"])
           /\ UNCHANGED <<users, documents, shares, files, now>>

\* The COUNT of the active shares of the caller; count == 0 gives ErrAccessDenied
GetFilePathCount(p) ==
    LET c == [proc[p] EXCEPT !.saw = SawOf(shares, proc[p].doc, proc[p].caller, now)]
    IN /\ c.op = "GetFilePath" /\ c.pc = "count"
       /\ Ret(p, IF CountActive(shares, c.doc, c.caller, now) = 0
                 THEN Finish(c, ErrAccessDenied)
                 ELSE Finish([c EXCEPT !.path = FilePathOf(c.doc)], ErrNil))
       /\ UNCHANGED <<users, documents, shares, files, now>>

\* DocumentService.CanAccess: GetByID and the owner test
CanAccessCall(p) ==
    \E d \in DocIds, u \in UserIds :
        /\ CanCall(p)
        /\ Ret(p, CanAccessHead(Start("CanAccess", d, u), "done"))
        /\ UNCHANGED <<users, documents, shares, files, now>>

\* The permission query of CanAccess: sql.ErrNoRows gives (false, "", nil)
CanAccessQuery(p) ==
    LET c == [proc[p] EXCEPT !.saw = SawOf(shares, proc[p].doc, proc[p].caller, now)]
        perms == ScanPermission(shares, c.doc, c.caller, now)
    IN /\ c.op = "CanAccess" /\ c.pc = "query"
       /\ \/ /\ perms = {}
             /\ Ret(p, Finish(c, ErrNil))
          \/ \E permission \in perms :
                Ret(p, Finish([c EXCEPT !.allowed = TRUE, !.level = permission], ErrNil))
       /\ UNCHANGED <<users, documents, shares, files, now>>

\* DocumentService.Rename: the GetByID and the owner test of its CanAccess
RenameCall(p) ==
    \E d \in DocIds, u \in UserIds, name \in Names :
        /\ CanCall(p)
        /\ Ret(p, CanAccessHead([Start("Rename", d, u) EXCEPT !.name = name], "update"))
        /\ UNCHANGED <<users, documents, shares, files, now>>

\* The permission query of the CanAccess inside Rename, then the test of
\* what it returned.
RenameQuery(p) ==
    LET c == [proc[p] EXCEPT !.saw = SawOf(shares, proc[p].doc, proc[p].caller, now)]
        perms == ScanPermission(shares, c.doc, c.caller, now)
    IN /\ c.op = "Rename" /\ c.pc = "query"
       /\ \/ /\ perms = {}
             /\ Ret(p, IF RenameAllowed(FALSE, "") THEN [c EXCEPT !.pc = "update"]
                       ELSE Finish(c, ErrAccessDenied))
          \/ \E permission \in perms :
                LET c2 == [c EXCEPT !.allowed = TRUE, !.level = permission]
                IN Ret(p, IF RenameAllowed(TRUE, permission) THEN [c2 EXCEPT !.pc = "update"]
                          ELSE Finish(c2, ErrAccessDenied))
       /\ UNCHANGED <<users, documents, shares, files, now>>

\* Mutant of RenameUpdate: the UPDATE only matches while the caller owns the
\* document or holds an active edit share.
RenameUpdateChecked(p) ==
    LET c == proc[p]
        holds == \/ documents[c.doc].owner_id = c.caller
                 \/ "edit" \in ScanPermission(shares, c.doc, c.caller, now)
    IN /\ c.op = "Rename" /\ c.pc = "update"
       /\ documents' = IF holds
                        THEN [documents EXCEPT ![c.doc].name = c.name,
                                               ![c.doc].updated_at = TimeAt(now)]
                        ELSE documents
       /\ Ret(p, Finish(c, ErrNil))
       /\ UNCHANGED <<users, shares, files, now>>

\* UPDATE documents SET name = $1, updated_at = $2 WHERE id = $3
RenameUpdate(p) ==
    LET c == proc[p]
    IN /\ c.op = "Rename" /\ c.pc = "update"
       /\ documents' = [documents EXCEPT ![c.doc].name = c.name,
                                         ![c.doc].updated_at = TimeAt(now)]
       /\ Ret(p, Finish(c, ErrNil))
       /\ UNCHANGED <<users, shares, files, now>>

\* DocumentService.GetSharedWithUser, first page: the COUNT query
SharedCall(p) ==
    \E u \in UserIds :
        /\ CanCall(p)
        /\ Ret(p, [Start("GetSharedWithUser", 0, u) EXCEPT
                       !.pc = "rows",
                       !.total = Cardinality(SharedRows(documents, shares, now, u))])
        /\ UNCHANGED <<users, documents, shares, files, now>>

\* DocumentService.GetSharedWithUser: the row query; the page holds every row
SharedRowsQuery(p) ==
    LET c == proc[p]
    IN /\ c.op = "GetSharedWithUser" /\ c.pc = "rows"
       /\ Ret(p, Finish([c EXCEPT !.list =
                  {r.document_id : r \in SharedRows(documents, shares, now, c.caller)}], ErrNil))
       /\ UNCHANGED <<users, documents, shares, files, now>>

Step(p) ==
    \/ Return(p)
    \/ Create(p)
    \/ GetByID(p)
    \/ DeleteCall(p)
    \/ DeleteUpdate(p)
    \/ DeleteRemove(p)
    \/ ShareDocumentInvalid(p)
    \/ ShareCall(p)
    \/ ShareUpsert(p)
    \/ RemoveShareCall(p)
    \/ RemoveShareDelete(p)
    \/ GetFilePathCall(p)
    \/ GetFilePathCount(p)
    \/ CanAccessCall(p)
    \/ CanAccessQuery(p)
    \/ RenameCall(p)
    \/ RenameQuery(p)
    \/ RenameUpdate(p)
    \/ SharedCall(p)
    \/ SharedRowsQuery(p)

\* One request at a time; the clock and the expiry of a share move between
\* the statements of a call.
Next ==
    \/ Tick
    \/ SetExpiry
    \/ Step("p1")

Spec == Init /\ [][Next]_vars

\* Concurrent requests: the statements of the calls of all processes interleave.
NextConc == \E p \in Procs : Step(p)

SpecConc == Init /\ [][NextConc]_vars

TypeOK ==
    /\ now \in Times
    /\ Len(documents) <= MaxDocs
    /\ \A p \in Procs : proc[p].pc \in {"idle", "run", "insert", "upsert", "delete", "update",
                                         "remove", "count", "query", "rows", "lookup",
                                         "serve", "done"}

----------------------------------------------------------------------------
\* Downloads (DocumentHandler.DownloadDocument) next to concurrent deletes

\* the handler dereferences the nil document of a failed second lookup:
\* the goroutine panics and gin's Recovery answers 500
ErrNilDocument == "nil pointer dereference"

\* c.File(filePath) on a path with no file: http.ServeFile answers 404
ErrNoFile == "no such file"

\* the status of the response a download ends in
DownloadStatus(err) ==
    CASE err = ErrNil -> 200
      [] err = ErrDocumentNotFound -> 404
      [] err = ErrAccessDenied -> 403
      [] err = ErrNoFile -> 404
      [] OTHER -> 500

\* DownloadDocument: GetFilePath's GetByID and owner test
DownloadCall(p) ==
    \E d \in DocIds, u \in UserIds :
        LET c == Start("DownloadDocument", d, u)
        IN /\ CanCall(p)
           /\ Ret(p, IF ~GetByIDFound(documents, d) THEN Finish(c, ErrDocumentNotFound)
                     ELSE IF documents[d].owner_id = u
                          THEN [c EXCEPT !.path = FilePathOf(d), !.pc = "lookup"]
                     ELSE [c EXCEPT !.pc = "count"])
           /\ UNCHANGED <<users, documents, shares, files, now>>

\* GetFilePath's COUNT of the active shares of the caller
DownloadCount(p) ==
    LET c == proc[p]
    IN /\ c.op = "DownloadDocument" /\ c.pc = "count"
       /\ Ret(p, IF CountActive(shares, c.doc, c.caller, now) = 0
                 THEN Finish(c, ErrAccessDenied)
                 ELSE [c EXCEPT !.path = FilePathOf(c.doc), !.pc = "lookup"])
       /\ UNCHANGED <<users, documents, shares, files, now>>

\* document, _ := h.documentService.GetByID(docID), then document.OriginalName
DownloadLookup(p) ==
    LET c == proc[p]
    IN /\ c.op = "DownloadDocument" /\ c.pc = "lookup"
       /\ Ret(p, IF GetByIDFound(documents, c.doc) THEN [c EXCEPT !.pc = "serve"]
                 ELSE Finish(c, ErrNilDocument))
       /\ UNCHANGED <<users, documents, shares, files, now>>

\* c.File(filePath)
DownloadServe(p) ==
    LET c == proc[p]
    IN /\ c.op = "DownloadDocument" /\ c.pc = "serve"
       /\ Ret(p, Finish(c, IF c.path \in files THEN ErrNil ELSE ErrNoFile))
       /\ UNCHANGED <<users, documents, shares, files, now>>

\* Downloads concurrent with uploads, shares and deletes.
NextDownload ==
    \E p \in Procs :
        \/ Return(p)
        \/ Create(p)
        \/ DeleteCall(p)
        \/ DeleteUpdate(p)
        \/ DeleteRemove(p)
        \/ ShareCall(p)
        \/ ShareUpsert(p)
        \/ DownloadCall(p)
        \/ DownloadCount(p)
        \/ DownloadLookup(p)
        \/ DownloadServe(p)

SpecDownload == Init /\ [][NextDownload]_vars

----------------------------------------------------------------------------
\* Token service (AuthMiddleware.GenerateToken, AuthMiddleware.ValidateToken)

\* signing secrets an AuthMiddleware may be constructed with
Secrets == {"secret-key-1", "secret-key-2"}

\* the validity window of a token (24 hours), in clock ticks
TokenTTL == 2

\* the clock of the token service runs from 0 to MaxClock
MaxClock == 3

\* tokens handed out in one behaviour
MaxIssued == 1

ErrInvalidToken == "invalid token"
ErrExpiredToken == "token has expired"

\* Claims{UserID, Email, RegisteredClaims{ExpiresAt, IssuedAt, NotBefore}}
Claims(userID, email, iat, nbf, exp) ==
    [user_id |-> userID, email |-> email, iat |-> iat, nbf |-> nbf, exp |-> exp]

\* The HS256 signature: a function of the key and of the signed claims.
HMAC(secret, claims) == [key |-> secret, over |-> claims]

\* The empty signature of an unsigned ("none") token.
NoSignature == [key |-> "", over |-> Claims("", "", 0, 0, 0)]

\* A three-segment token: header algorithm, claims, signature.
Jwt(alg, claims, sig) == [shape |-> "jwt", alg |-> alg, claims |-> claims, sig |-> sig]

\* Strings that are not a three-segment token: "", "not-a-valid-jwt", and
\* a header and payload without a signature segment.
Malformed == {[shape |-> "empty"], [shape |-> "malformed"], [shape |-> "two_segments"]}

\* Mutant of GenerateToken: the token expires the moment it is issued.
GenerateTokenNoWindow(secret, userID, email, t) ==
    Jwt("HS256", Claims(userID, email, t, t, t), HMAC(secret, Claims(userID, email, t, t, t)))

\* Issue: {userID, email, issuedAt, notBefore, expiresAt = issuedAt + 24h},
\* signed with the secret of the middleware.
GenerateToken(secret, userID, email, t) ==
    Jwt("HS256", Claims(userID, email, t, t, t + TokenTTL),
        HMAC(secret, Claims(userID, email, t, t, t + TokenTTL)))

TokenOk(claims) == [err |-> ErrNil, user_id |-> claims.user_id, email |-> claims.email]

TokenErr(e) == [err |-> e, user_id |-> "", email |-> ""]

\* Mutant of ValidateToken: the expiry claim is read before the signature
\* is verified.
ValidateTokenExpiryFirst(secret, tok, t) ==
    IF tok.shape # "jwt" THEN TokenErr(ErrInvalidToken)
    ELSE IF t > tok.claims.exp THEN TokenErr(ErrExpiredToken)
    ELSE IF tok.alg # "HS256" THEN TokenErr(ErrInvalidToken)
    ELSE IF tok.sig # HMAC(secret, tok.claims) THEN TokenErr(ErrInvalidToken)
    ELSE IF t < tok.claims.nbf THEN TokenErr(ErrInvalidToken)
    ELSE TokenOk(tok.claims)

\* Verify: InvalidToken for an empty or malformed token, an unexpected or
\* absent algorithm, a bad signature or a different secret; ExpiredToken
\* when structure and signature are valid but now > expiresAt.
ValidateToken(secret, tok, t) ==
    IF tok.shape # "jwt" THEN TokenErr(ErrInvalidToken)
    ELSE IF tok.alg # "HS256" THEN TokenErr(ErrInvalidToken)
    ELSE IF tok.sig # HMAC(secret, tok.claims) THEN TokenErr(ErrInvalidToken)
    ELSE IF t > tok.claims.exp THEN TokenErr(ErrExpiredToken)
    ELSE IF t < tok.claims.nbf THEN TokenErr(ErrInvalidToken)
    ELSE TokenOk(tok.claims)

\* Tokens built by hand, as the tests do with jwt.NewWithClaims: any
\* algorithm, any expiry, signed with any secret, unsigned, or carrying the
\* signature of other claims.
Crafted ==
    LET cl == {Claims(u.id, u.email, 0, 0, e) : u \in UserRows, e \in {0, MaxClock}}
    IN UNION {{Jwt(alg, c, sig) : alg \in {"HS256", "none"},
                                  sig \in {HMAC(k, c) : k \in Secrets} \cup {NoSignature}} :
              c \in cl}
       \cup {Jwt("HS256", c, HMAC(k, [c EXCEPT !.exp = c.exp + 1])) : c \in cl, k \in Secrets}

\* the tokens a caller can present
TokenInputs == {i.token : i \in issued} \cup Malformed \cup Crafted

\* Wall clock of the token service
ClockTick ==
    /\ now < MaxClock
    /\ now' = now + 1
    /\ UNCHANGED <<users, documents, shares, files, proc, issued, resp>>

\* AuthHandler.Register / Login hand the caller GenerateToken(user.ID, user.Email)
GenerateTokenCall ==
    /\ resp = NoResp
    /\ Cardinality(issued) < MaxIssued
    /\ \E secret \in Secrets, u \in users :
        LET tok == GenerateToken(secret, u.id, u.email, now)
        IN /\ issued' = issued \cup {[secret |-> secret, user_id |-> u.id, email |-> u.email,
                                       at |-> now, token |-> tok]}
           /\ resp' = [op |-> "GenerateToken", secret |-> secret, token |-> tok, at |-> now]
           /\ UNCHANGED <<users, documents, shares, files, now, proc>>

\* The caller takes the response; the next request can be served.
TakeResponse ==
    /\ resp # NoResp
    /\ resp' = NoResp
    /\ UNCHANGED <<users, documents, shares, files, now, proc, issued>>

ValidateTokenCall ==
    /\ resp = NoResp
    /\ \E secret \in Secrets, tok \in TokenInputs :
        /\ resp' = [op |-> "ValidateToken", secret |-> secret, token |-> tok, at |-> now,
                    result |-> ValidateToken(secret, tok, now)]
        /\ UNCHANGED <<users, documents, shares, files, now, proc, issued>>

----------------------------------------------------------------------------
\* Request gate (AuthMiddleware.Authenticate)

\* A segment of the Authorization header that is a keyword, not a token.
Word(w) == [shape |-> "word", text |-> w]

SchemeWords == {"Bearer", "bearer", "BEARER", "Basic"}

\* strings.ToLower on the words a header may carry
ToLower(w) ==
    CASE w = "Bearer" -> "bearer"
      [] w = "BEARER" -> "bearer"
      [] w = "Basic" -> "basic"
      [] w = "TEXT/PLAIN" -> "text/plain"
      [] w = "Application/PDF" -> "application/pdf"
      [] w = "Charset=UTF-8" -> "charset=utf-8"
      [] OTHER -> w

\* The Authorization header as its segments between single spaces: the
\* absent header has none, "Bearer " ends in an empty segment, and two
\* spaces in a row hold an empty segment between them.
Headers ==
    LET toks == TokenInputs
        segs == toks \cup {Word(w) : w \in SchemeWords}
    IN {<<>>} \cup {<<x>> : x \in segs}
       \cup {<<Word(w), x>> : w \in SchemeWords, x \in toks}
       \cup {<<Word(w), x, Word("extra")>> : w \in SchemeWords, x \in toks}
       \cup {<<Word(w), [shape |-> "empty"], x>> : w \in SchemeWords, x \in toks}

Unauthorized == [status |-> 401, aborted |-> TRUE, next |-> FALSE, user_id |-> "", user_email |-> ""]

\* Mutant of Authenticate: the scheme keyword is compared without lowering it.
AuthenticateExactScheme(secret, header, t) ==
    IF Len(header) # 2 THEN Unauthorized
    ELSE IF header[1].shape # "word" THEN Unauthorized
    ELSE IF header[1].text # "Bearer" THEN Unauthorized
    ELSE IF ValidateToken(secret, header[2], t).err # ErrNil THEN Unauthorized
    ELSE [status |-> 200, aborted |-> FALSE, next |-> TRUE,
          user_id |-> ValidateToken(secret, header[2], t).user_id,
          user_email |-> ValidateToken(secret, header[2], t).email]

\* The gate: the header must be the scheme keyword (any letter case), one
\* space and one token that verifies; then the identity is bound into the
\* request context and the next handler runs; otherwise 401 and abort.
Authenticate(secret, header, t) ==
    IF Len(header) # 2 THEN Unauthorized
    ELSE IF header[1].shape # "word" THEN Unauthorized
    ELSE IF ToLower(header[1].text) # "bearer" THEN Unauthorized
    ELSE IF ValidateToken(secret, header[2], t).err # ErrNil THEN Unauthorized
    ELSE [status |-> 200, aborted |-> FALSE, next |-> TRUE,
          user_id |-> ValidateToken(secret, header[2], t).user_id,
          user_email |-> ValidateToken(secret, header[2], t).email]

AuthenticateCall ==
    /\ resp = NoResp
    /\ \E secret \in Secrets, header \in Headers :
        /\ resp' = [op |-> "Authenticate", secret |-> secret, header |-> header, at |-> now,
                    result |-> Authenticate(secret, header, now)]
        /\ UNCHANGED <<users, documents, shares, files, now, proc, issued>>

NextAuth ==
    \/ ClockTick
    \/ GenerateTokenCall
    \/ ValidateTokenCall
    \/ AuthenticateCall
    \/ TakeResponse

SpecAuth == Init /\ [][NextAuth]_vars

----------------------------------------------------------------------------
\* Credential store (UserService) behind AuthHandler.Register and Login.
\* The requests modelled are those that pass the binding of RegisterRequest
\* and LoginRequest.

\* bcrypt reads at most this many bytes of a password (72, scaled down)
BcryptMaxLen == 2

\* Passwords as byte sequences: shorter than the bcrypt limit, exactly at
\* it, and two longer ones that agree on the bytes bcrypt reads.
Passwords == {<<"a">>, <<"a", "b">>, <<"a", "b", "c">>, <<"a", "b", "d">>}

RegEmails == {"alice@x", "bob@x"}
UserNames == {"Ann"}

\* per-hash random salts
Salts == {"s1", "s2"}

ErrUserExists == "user already exists"
ErrInvalidPassword == "invalid password"
\* bcrypt.ErrPasswordTooLong
ErrPasswordTooLong == "bcrypt: password length exceeds 72 bytes"
\* the driver error of an INSERT that violates users.email UNIQUE
ErrUniqueViolation == "pq: duplicate key value violates unique constraint"

\* The bytes of the password that enter the hash.
Truncate(password) ==
    SubSeq(password, 1, IF Len(password) < BcryptMaxLen THEN Len(password) ELSE BcryptMaxLen)

\* A value of the users.password column written as plaintext.
Plain(password) == [kind |-> "plain", salt |-> "", key |-> password]

\* Mutant of Hash: the password is stored as it came.
HashPlain(password, salt) == Plain(password)

\* The bcrypt hash: a one-way function of the salt and of the bytes read.
Hash(password, salt) == [kind |-> "bcrypt", salt |-> salt, key |-> Truncate(password)]

\* bcrypt.GenerateFromPassword(password, DefaultCost): the library either
\* refuses a password longer than its limit (ErrPasswordTooLong) or, in its
\* older releases, hashes the bytes it reads; the results a build can give.
GenerateFromPassword(password) ==
    {[err |-> ErrNil, hash |-> Hash(password, salt)] : salt \in Salts}
    \cup (IF Len(password) > BcryptMaxLen
          THEN {[err |-> ErrPasswordTooLong, hash |-> Plain(<<>>)]}
          ELSE {})

\* bcrypt.CompareHashAndPassword(hash, password) = nil
CompareHashAndPassword(hash, password) ==
    hash.kind = "bcrypt" /\ hash = Hash(password, hash.salt)

NoUser == [id |-> 0, email |-> ""]

NoHttp == [status |-> 0, error |-> "", message |-> ""]

UserCall(op, email, password, name) ==
    [op |-> op, pc |-> "run", email |-> email, password |-> password, name |-> name,
     err |-> ErrNil, user |-> NoUser, http |-> NoHttp, lookup |-> "ok"]

\* AuthHandler.Register: the response for the result of UserService.Create
RegisterResponse(err) ==
    IF err = ErrNil THEN [status |-> 201, error |-> "", message |-> ""]
    ELSE IF err = ErrUserExists
    THEN [status |-> 409, error |-> "user_exists",
          message |-> "A user with this email already exists"]
    ELSE [status |-> 500, error |-> "internal_error", message |-> "Failed to create user"]

\* Mutant of LoginResponse: an unknown email is answered 404 user_not_found.
LoginResponseNotFound(err) ==
    IF err = ErrNil THEN [status |-> 200, error |-> "", message |-> ""]
    ELSE IF err = ErrUserNotFound
    THEN [status |-> 404, error |-> "user_not_found", message |-> "User not found"]
    ELSE IF err = ErrInvalidPassword
    THEN [status |-> 401, error |-> "invalid_credentials",
          message |-> "Invalid email or password"]
    ELSE [status |-> 500, error |-> "internal_error", message |-> "Authentication failed"]

\* AuthHandler.Login: the response for the result of UserService.Authenticate
LoginResponse(err) ==
    IF err = ErrNil THEN [status |-> 200, error |-> "", message |-> ""]
    ELSE IF err = ErrUserNotFound \/ err = ErrInvalidPassword
    THEN [status |-> 401, error |-> "invalid_credentials",
          message |-> "Invalid email or password"]
    ELSE [status |-> 500, error |-> "internal_error", message |-> "Authentication failed"]

RegisterDone(c, e) == [Finish(c, e) EXCEPT !.http = RegisterResponse(e)]

LoginDone(c, e) == [Finish(c, e) EXCEPT !.http = LoginResponse(e)]

\* users.email UNIQUE, as the INSERT meets it
EmailTaken(us, email) == UsersByEmail(us, email) # {}

InitUsers ==
    /\ users = {}
    /\ documents = <<>>
    /\ shares = {}
    /\ files = {}
    /\ now = 0
    /\ proc = [p \in Procs |-> Idle]
    /\ issued = {}
    /\ resp = NoResp

\* Register and UserService.Create up to its existence check:
\* existing, _ := s.GetByEmail(email); existing != nil gives ErrUserExists.
\* When the query fails GetByEmail returns (nil, err) and the error is
\* dropped, so existing is nil; lookup is a ghost field recording it.
RegisterCall(p) ==
    \E email \in RegEmails, password \in Passwords, name \in UserNames,
       lookup \in {"ok", "failed"} :
        LET c == [UserCall("Register", email, password, name) EXCEPT !.lookup = lookup]
            existing == IF lookup = "ok" THEN UsersByEmail(users, email) ELSE {}
        IN /\ CanCall(p)
           /\ Ret(p, IF existing # {} THEN RegisterDone(c, ErrUserExists)
                     ELSE [c EXCEPT !.pc = "insert"])
           /\ UNCHANGED <<users, documents, shares, files, now>>

\* The rest of UserService.Create: the hash, uuid.New() and the INSERT.
\* plain is a ghost column: the password the row was registered with; no
\* statement reads it.
RegisterInsert(p) ==
    LET c == proc[p]
        id == Cardinality(users) + 1
    IN /\ c.op = "Register" /\ c.pc = "insert"
       /\ \E h \in GenerateFromPassword(c.password) :
             IF h.err # ErrNil
             THEN /\ Ret(p, RegisterDone(c, h.err))
                  /\ UNCHANGED users
             ELSE IF EmailTaken(users, c.email)
             THEN /\ Ret(p, RegisterDone(c, ErrUniqueViolation))
                  /\ UNCHANGED users
             ELSE /\ users' = users \cup {[id |-> id, email |-> c.email, password |-> h.hash,
                                            name |-> c.name, plain |-> c.password]}
                  /\ Ret(p, RegisterDone([c EXCEPT !.user = [id |-> id, email |-> c.email]],
                                         ErrNil))
       /\ UNCHANGED <<documents, shares, files, now>>

\* Login and UserService.Authenticate: GetByEmail, then the comparison of
\* the stored hash with the password.
LoginCall(p) ==
    \E email \in RegEmails, password \in Passwords :
        LET c == UserCall("Login", email, password, "")
            found == UsersByEmail(users, email)
            u == CHOOSE r \in found : TRUE
        IN /\ CanCall(p)
           /\ Ret(p, IF found = {} THEN LoginDone(c, ErrUserNotFound)
                     ELSE IF ~CompareHashAndPassword(u.password, password)
                     THEN LoginDone(c, ErrInvalidPassword)
                     ELSE LoginDone([c EXCEPT !.user = [id |-> u.id, email |-> u.email]], ErrNil))
           /\ UNCHANGED <<users, documents, shares, files, now>>

StepUsers(p) ==
    \/ Return(p)
    \/ RegisterCall(p)
    \/ RegisterInsert(p)
    \/ LoginCall(p)

\* One registration or login at a time.
NextUsers == StepUsers("p1")

SpecUsers == InitUsers /\ [][NextUsers]_vars

\* Concurrent registrations and logins.
NextUsersConc == \E p \in Procs : StepUsers(p)

SpecUsersConc == InitUsers /\ [][NextUsersConc]_vars

----------------------------------------------------------------------------
\* Pagination of the listings (GetByOwner, GetSharedWithUser)

\* Go's int, scaled down from 64 bits; its arithmetic wraps around
IntBits == 16
MaxInt == 2^(IntBits - 1) - 1
MinInt == -(2^(IntBits - 1))
Wrap(x) == ((x - MinInt) % 2^IntBits) + MinInt

DefaultPerPage == 20
MaxPerPage == 100

\* the page and page size arguments tried
PageInputs == {MinInt, -1, 0, 1, 2, 3, MaxInt}
PerPageInputs == {MinInt, -1, 0, 1, 2, 20, 99, 100, 101, 200, MaxInt}

\* if page < 1 { page = 1 }
ClampPage(page) == IF page < 1 THEN 1 ELSE page

\* Mutant of ClampPerPage: a page size of 1 is replaced by the default too.
ClampPerPageAboveOne(perPage) ==
    IF perPage <= 1 \/ perPage > MaxPerPage THEN DefaultPerPage ELSE perPage

\* if perPage < 1 || perPage > 100 { perPage = 20 }
ClampPerPage(perPage) ==
    IF perPage < 1 \/ perPage > MaxPerPage THEN DefaultPerPage ELSE perPage

\* offset := (page - 1) * perPage, on the clamped values; LIMIT $2 OFFSET $3
Paging(page, perPage) ==
    [limit |-> ClampPerPage(perPage),
     offset |-> Wrap(Wrap(ClampPage(page) - 1) * ClampPerPage(perPage))]

\* DocumentService.GetByOwner(ownerID, page, perPage): the LIMIT and OFFSET
\* its row query is run with
GetByOwnerCall ==
    /\ resp = NoResp
    /\ \E page \in PageInputs, perPage \in PerPageInputs :
          resp' = [op |-> "GetByOwner", page |-> page, perPage |-> perPage,
                   query |-> Paging(page, perPage)]
    /\ UNCHANGED <<users, documents, shares, files, now, proc, issued>>

\* DocumentService.GetSharedWithUser(userID, page, perPage): the same lines
GetSharedWithUserCall ==
    /\ resp = NoResp
    /\ \E page \in PageInputs, perPage \in PerPageInputs :
          resp' = [op |-> "GetSharedWithUser", page |-> page, perPage |-> perPage,
                   query |-> Paging(page, perPage)]
    /\ UNCHANGED <<users, documents, shares, files, now, proc, issued>>

\* The page and per_page query parameters of a listing request: left out,
\* not a number, a number, or a number outside the range of int
QueryValues ==
    {[kind |-> k, v |-> 0] : k \in {"absent", "text", "above", "below"}}
        \cup {[kind |-> "int", v |-> n] : n \in {MinInt, -1, 0, 1, 2, 20, 100, 101, MaxInt}}

\* strconv.Atoi(c.DefaultQuery(key, def)) with its error dropped: 0 for a
\* text that is no number, the nearest int for a number out of range
Atoi(q, def) ==
    CASE q.kind = "absent" -> def
      [] q.kind = "text" -> 0
      [] q.kind = "above" -> MaxInt
      [] q.kind = "below" -> MinInt
      [] OTHER -> q.v

\* the totals the COUNT query of a listing returns
Totals == {0, 1, 45}

\* Go's integer division: the quotient is truncated toward zero
Quot(a, b) ==
    LET abs(x) == IF x < 0 THEN -x ELSE x
        m == abs(a) \div abs(b)
    IN IF (a < 0) = (b < 0) THEN m ELSE -m

\* A listing handler after its service call returned total rows: the query
\* fails on a negative OFFSET (500), the division by a per_page of 0 panics
\* (gin's Recovery answers 500), otherwise 200 with the values as parsed
ListResponse(page, perPage, total) ==
    IF Paging(page, perPage).offset < 0
    THEN [status |-> 500, error |-> "internal_error"]
    ELSE IF perPage = 0
    THEN [status |-> 500, error |-> "panic"]
    ELSE [status |-> 200, total |-> total, page |-> page, per_page |-> perPage,
          total_pages |-> Wrap(Quot(Wrap(total + perPage - 1), perPage))]

\* DocumentHandler.ListDocuments
ListDocumentsCall ==
    /\ resp = NoResp
    /\ \E pq \in QueryValues, ppq \in QueryValues, total \in Totals :
          resp' = [op |-> "ListDocuments", page |-> pq, per_page |-> ppq,
                   total |-> total,
                   http |-> ListResponse(Atoi(pq, 1), Atoi(ppq, DefaultPerPage), total)]
    /\ UNCHANGED <<users, documents, shares, files, now, proc, issued>>

\* DocumentHandler.ListSharedDocuments
ListSharedDocumentsCall ==
    /\ resp = NoResp
    /\ \E pq \in QueryValues, ppq \in QueryValues, total \in Totals :
          resp' = [op |-> "ListSharedDocuments", page |-> pq, per_page |-> ppq,
                   total |-> total,
                   http |-> ListResponse(Atoi(pq, 1), Atoi(ppq, DefaultPerPage), total)]
    /\ UNCHANGED <<users, documents, shares, files, now, proc, issued>>

NextPage ==
    \/ GetByOwnerCall
    \/ GetSharedWithUserCall
    \/ ListDocumentsCall
    \/ ListSharedDocumentsCall
    \/ TakeResponse

SpecPage == Init /\ [][NextPage]_vars

----------------------------------------------------------------------------
\* Uploads and renames (utils.SanitizeFilename, utils.ValidateContentType,
\* DocumentService.Create, DocumentService.Rename and their handlers)

\* A file name is the sequence of its bytes; the bytes tried
Chars == {"a", ".", "/", "\\", "NUL", " "}
MaxRawLen == 4
RawNames == UNION {[1..n -> Chars] : n \in 0..MaxRawLen}

\* the limit of 255 bytes on a sanitized name, scaled down
MaxNameLen == 3

ErrInvalidFilename == "invalid filename"
ErrInvalidContentType == "invalid content type"

RECURSIVE TrimRight(_, _)
TrimRight(s, ch) ==
    IF s # <<>> /\ s[Len(s)] = ch THEN TrimRight(SubSeq(s, 1, Len(s) - 1), ch) ELSE s

RECURSIVE TrimLeft(_, _)
TrimLeft(s, ch) ==
    IF s # <<>> /\ s[1] = ch THEN TrimLeft(Tail(s), ch) ELSE s

\* strings.TrimSpace
TrimSpace(s) == TrimLeft(TrimRight(s, " "), " ")

\* the positions of ch in s
Indexes(s, ch) == {i \in 1..Len(s) : s[i] = ch}

Last(S) == CHOOSE i \in S : \A j \in S : j <= i
First(S) == CHOOSE i \in S : \A j \in S : i <= j

\* filepath.Base: "." for the empty path, trailing separators dropped, "/"
\* for a path of separators only, otherwise what follows the last separator
Base(path) ==
    IF path = <<>> THEN <<".">>
    ELSE LET t == TrimRight(path, "/")
         IN IF t = <<>> THEN <<"/">>
            ELSE IF Indexes(t, "/") = {} THEN t
            ELSE SubSeq(t, Last(Indexes(t, "/")) + 1, Len(t))

\* strings.ReplaceAll(s, ch, "")
ReplaceAll(s, ch) == SelectSeq(s, LAMBDA c : c # ch)

\* filepath.Ext on a name without separators: from its last dot on
Ext(s) == IF Indexes(s, ".") = {} THEN <<>> ELSE SubSeq(s, Last(Indexes(s, ".")), Len(s))

\* utils.SanitizeFilename
SanitizeFilename(filename) ==
    IF filename = <<>> THEN [name |-> <<>>, err |-> ErrInvalidFilename]
    ELSE LET f == TrimSpace(ReplaceAll(ReplaceAll(ReplaceAll(Base(filename), "/"), "\\"), "NUL"))
         IN IF f = <<>> \/ f = <<".">> \/ f = <<".", ".">>
            THEN [name |-> <<>>, err |-> ErrInvalidFilename]
            ELSE IF Len(f) > MaxNameLen
            THEN LET maxBase == MaxNameLen - Len(Ext(f))
                 IN IF maxBase < 1 THEN [name |-> <<>>, err |-> ErrInvalidFilename]
                    ELSE [name |-> SubSeq(f, 1, maxBase) \o Ext(f), err |-> ErrNil]
            ELSE [name |-> f, err |-> ErrNil]

\* A Content-Type header is the sequence of its parts: media type words,
\* spaces, semicolons and parameters
ContentParts == {"text/plain", "TEXT/PLAIN", "application/pdf", "Application/PDF",
                 "application/x-executable", "text/html",
                 " ", ";", "charset=utf-8", "Charset=UTF-8"}
MaxParts == 3
ContentTypes == UNION {[1..n -> ContentParts] : n \in 0..MaxParts}

\* utils.AllowedMIMETypes, the entries the words above can match
AllowedMIMETypes == {"text/plain", "application/pdf"}

\* what ValidateContentType looks up: the text before the first semicolon,
\* lower-cased, then trimmed
MediaType(contentType) ==
    LET cut == IF Indexes(contentType, ";") = {} THEN contentType
               ELSE SubSeq(contentType, 1, First(Indexes(contentType, ";")) - 1)
    IN TrimSpace([i \in 1..Len(cut) |-> ToLower(cut[i])])

\* Mutant of ValidateContentType: every content type passes.
ValidateContentTypeAny(contentType) == ErrNil

\* utils.ValidateContentType
ValidateContentType(contentType) ==
    IF Len(MediaType(contentType)) = 1 /\ MediaType(contentType)[1] \in AllowedMIMETypes
    THEN ErrNil
    ELSE ErrInvalidContentType

\* what goes wrong outside the program during a Create
Faults == {"none", "create", "copy", "insert"}

\* DocumentService.Create(ownerID, name, originalName, mimeType, size,
\* fileData) on the tables docs and the upload directory fs: validation, the
\* content written under the path of the new id, the row inserted, and the
\* content removed again when the copy or the INSERT fails
CreateResult(docs, fs, t, ownerID, name, originalName, mimeType, fault) ==
    LET id == Len(docs) + 1
        path == FilePathOf(id)
        original == SanitizeFilename(originalName)
        given == IF name # <<>> THEN SanitizeFilename(name) ELSE original
        fails(e) == [documents |-> docs, files |-> fs, err |-> e]
    IN IF ValidateContentType(mimeType) # ErrNil THEN fails("invalid file type")
       ELSE IF original.err # ErrNil THEN fails("invalid filename")
       ELSE IF given.err # ErrNil THEN fails("invalid document name")
       ELSE IF fault = "create" THEN fails("failed to create file")
       ELSE IF fault = "copy"
       THEN [documents |-> docs, files |-> CleanUp(fs \cup {path}, path),
             err |-> "failed to save file"]
       ELSE IF fault = "insert"
       THEN [documents |-> docs, files |-> CleanUp(fs \cup {path}, path),
             err |-> "failed to save document metadata"]
       ELSE [documents |-> Append(docs,
                 [owner_id |-> ownerID, name |-> given.name,
                  original_name |-> original.name, mime_type |-> mimeType,
                  updated_at |-> TimeAt(t), deleted_at |-> NullTime]),
             files |-> fs \cup {path}, err |-> ErrNil]

\* the uploads tried: one of the three texts varies, the others are plain
UploadInputs ==
    {[name |-> n, filename |-> <<"a">>, content_type |-> <<"text/plain">>] : n \in RawNames}
    \cup {[name |-> <<>>, filename |-> n, content_type |-> <<"text/plain">>] : n \in RawNames}
    \cup {[name |-> <<"a">>, filename |-> <<"a">>, content_type |-> ct] : ct \in ContentTypes}

\* DocumentHandler.UploadDocument with a file part within the size limit
UploadDocument ==
    /\ resp = NoResp
    /\ Len(documents) < MaxDocs
    /\ \E userID \in UserIds, in \in UploadInputs, fault \in Faults :
          LET name == IF in.name = <<>> THEN in.filename ELSE in.name
              r == CreateResult(documents, files, now, userID, name, in.filename,
                                in.content_type, fault)
          IN /\ documents' = r.documents
             /\ files' = r.files
             /\ resp' = [op |-> "UploadDocument", in |-> in, fault |-> fault,
                         id |-> Len(documents) + 1, err |-> r.err,
                         status |-> IF r.err = ErrNil THEN 201 ELSE 500]
    /\ UNCHANGED <<users, shares, now, proc, issued>>

\* the new names tried in a rename
RenameNames == {<<>>, <<"a">>, <<"a", ".", "a">>, <<".", ".">>, <<".", ".", "/", "a">>,
                <<"a", "NUL">>, <<" ">>, <<"a", "a", "a", "a">>}

\* DocumentHandler.RenameDocument: the body is bound (name required, min=1),
\* then DocumentService.Rename checks CanAccess and updates the name
RenameDocument ==
    /\ resp = NoResp
    /\ \E docID \in DocIds, userID \in UserIds, name \in RenameNames :
          LET call == [op |-> "RenameDocument", doc |-> docID, caller |-> userID,
                       name |-> name]
          IN IF Len(name) < 1
             THEN /\ resp' = call @@ [err |-> ErrValidation, status |-> 400]
                  /\ UNCHANGED documents
             ELSE \E a \in CanAccess(documents, shares, now, docID, userID) :
                     IF a.err # ErrNil
                     THEN /\ resp' = call @@ [err |-> a.err, status |-> 404]
                          /\ UNCHANGED documents
                     ELSE IF ~RenameAllowed(a.allowed, a.level)
                     THEN /\ resp' = call @@ [err |-> ErrAccessDenied, status |-> 403]
                          /\ UNCHANGED documents
                     ELSE /\ documents' = [documents EXCEPT ![docID].name = name,
                                                            ![docID].updated_at = TimeAt(now)]
                          /\ resp' = call @@ [err |-> ErrNil, status |-> 200]
    /\ UNCHANGED <<users, shares, files, now, proc, issued>>

NextUpload ==
    \/ UploadDocument
    \/ RenameDocument
    \/ TakeResponse

SpecUpload == Init /\ [][NextUpload]_vars

----------------------------------------------------------------------------
\* Steps as seen on a pair of states

\* p starts a call of op (the step that runs the method up to its second statement)
Calls(p, op) == proc[p].pc = "idle" /\ proc'[p].pc # "idle" /\ proc'[p].op = op

\* p executes the statement at pc of its call of op
Executes(p, op, pc) == proc[p].op = op /\ proc[p].pc = pc /\ proc'[p] # proc[p]

Returned(p, op) == proc[p].op = op /\ proc[p].pc = "done"

Owns(u, d) == d \in DOMAIN documents /\ documents[d].owner_id = u

----------------------------------------------------------------------------
\* C1: under interleaved concurrent Share calls there is at most one share
\* row per (document, recipient) pair in every reachable state; the upsert of
\* a Share call leaves exactly one row for its pair, carrying that call's
\* permission, and the permission of a pair's row is only ever changed by
\* the upsert of a Share call for that pair, so the row carries the
\* permission of the Share that committed last.
C1_OneRowPerPair ==
    \A d \in DocIds, u \in UserIds : Cardinality(ShareRows(shares, d, u)) <= 1

C1_CommitSetsPermission ==
    \A p \in Procs :
        Executes(p, "Share", "upsert") =>
            \E r \in shares' :
                /\ ShareRows(shares', proc[p].doc, proc[p].uid) = {r}
                /\ r.permission = proc[p].perm

C1_OnlyShareSetsPermission ==
    \A d \in DocIds, u \in UserIds :
        {r.permission : r \in ShareRows(shares', d, u)} \subseteq
            {r.permission : r \in ShareRows(shares, d, u)} \cup
            {proc[p].perm : p \in {q \in Procs : /\ Executes(q, "Share", "upsert")
                                                 /\ proc[q].doc = d /\ proc[q].uid = u}}

C1_Theorem ==
    /\ []C1_OneRowPerPair
    /\ [][C1_CommitSetsPermission /\ C1_OnlyShareSetsPermission]_vars

\* A re-share that changed the permission of the one row of its pair has
\* returned while another Share for the same pair is between its owner test
\* and its upsert.
C1_Witness ==
    /\ Returned("p1", "Share") /\ proc["p1"].err = ErrNil
    /\ proc["p1"].saw \in Perms /\ proc["p1"].saw # proc["p1"].perm
    /\ \E r \in shares : /\ ShareRows(shares, proc["p1"].doc, proc["p1"].uid) = {r}
                         /\ r.permission = proc["p1"].perm
    /\ proc["p1"].uid # proc["p1"].caller
    /\ proc["p2"].op = "Share" /\ proc["p2"].pc = "upsert"
    /\ proc["p2"].doc = proc["p1"].doc /\ proc["p2"].uid = proc["p1"].uid
\* The permissions of the active (not expired) share rows of u on d
ActivePerms(d, u) ==
    {r.permission : r \in {x \in shares : /\ x.document_id = d /\ x.shared_with_id = u
                                          /\ (~x.expires_at.valid \/ x.expires_at.t > now)}}

\* The share rows whose expiry is in the past
ExpiredRows == {r \in shares : r.expires_at.valid /\ r.expires_at.t <= now}

Live(d) == d \in DOMAIN documents /\ ~documents[d].deleted_at.valid

----------------------------------------------------------------------------
\* C2: CanAccess(D, U) on a non-deleted document D owned by U returns
\* (true, "owner") with no error; for another user V, the call goes on to the
\* share query, and when no share row of V on D exists there it returns
\* (false, "") with no error.
C2_Owner ==
    \A p \in Observed :
        LET c == proc'[p]
        IN Calls(p, "CanAccess") /\ Live(c.doc) =>
              IF Owns(c.caller, c.doc)
              THEN c.pc = "done" /\ c.allowed /\ c.level = "owner" /\ c.err = ErrNil
              ELSE c.pc = "query"

C2_NoShare ==
    \A p \in Observed :
        LET c == proc'[p]
        IN Executes(p, "CanAccess", "query") /\ ShareRows(shares, proc[p].doc, proc[p].caller) = {} =>
              c.pc = "done" /\ ~c.allowed /\ c.level = "" /\ c.err = ErrNil

C2_Theorem == [][C2_Owner /\ C2_NoShare]_vars

\* CanAccess of a user with no share row has returned (false, "") on a live
\* document that is shared with somebody else.
C2_Witness ==
    /\ Returned("p1", "CanAccess") /\ proc["p1"].saw = "norow"
    /\ ~proc["p1"].allowed /\ proc["p1"].level = "" /\ proc["p1"].err = ErrNil
    /\ Live(proc["p1"].doc) /\ ~Owns(proc["p1"].caller, proc["p1"].doc)
    /\ \E r \in shares : r.document_id = proc["p1"].doc

----------------------------------------------------------------------------
\* C3: for a non-owner V, a state where V's share on D has expired is
\* indistinguishable from the state without that share row: the permission
\* query of CanAccess (and of Rename), the count of GetFilePath and the
\* shared listing deliver the same on both, and a call that met only an
\* expired row returns what a call that met no row returns: (false, "", nil)
\* from CanAccess, AccessDenied from GetFilePath and from Rename.
C3_SameQueries ==
    \A d \in DOMAIN documents, v \in UserIds :
        LET without == shares \ (ExpiredRows \cap ShareRows(shares, d, v))
        IN /\ ScanPermission(shares, d, v, now) = ScanPermission(without, d, v, now)
           /\ CountActive(shares, d, v, now) = CountActive(without, d, v, now)
           /\ SharedRows(documents, shares, now, v) = SharedRows(documents, without, now, v)

C3_SameResults ==
    \A p \in Observed :
        LET c == proc[p]
        IN c.pc = "done" /\ c.saw \in {"expired", "norow"} =>
              /\ c.op = "CanAccess" => ~c.allowed /\ c.level = "" /\ c.err = ErrNil
              /\ c.op = "GetFilePath" => c.err = ErrAccessDenied /\ c.path = NoPath
              /\ c.op = "Rename" => c.err = ErrAccessDenied

C3_Theorem == C3_SameQueries /\ C3_SameResults

\* GetFilePath of a user whose only share row has expired was denied.
C3_Witness ==
    /\ Returned("p1", "GetFilePath") /\ proc["p1"].saw = "expired"
    /\ proc["p1"].err = ErrAccessDenied
    /\ ExpiredRows \cap ShareRows(shares, proc["p1"].doc, proc["p1"].caller) # {}

----------------------------------------------------------------------------
\* C4: whenever the upsert of Share(D, owner, email of V, p) has run (Share
\* returns success), an active share of V on D with permission p exists, so
\* the permission query of CanAccess(D, V) delivers p -- also when the pair
\* had only an expired row before.
C4_ShareGrants ==
    [][\A p \in Procs :
          Executes(p, "Share", "upsert") =>
              ScanPermission(shares', proc[p].doc, proc[p].uid, now') = {proc[p].perm}]_vars

----------------------------------------------------------------------------
\* C5: Rename by the owner goes on to the name update, and so does Rename by
\* the holder of an active edit share; the update sets the name and
\* updated_at and returns nil.  Rename by a caller with only a view share,
\* an expired share or no share returns AccessDenied, and the step that
\* returns AccessDenied leaves the documents table as it was.
C5_Decision ==
    \A p \in Observed :
        LET c == proc'[p]
        IN /\ Calls(p, "Rename") /\ Live(c.doc) =>
                 c.pc = IF Owns(c.caller, c.doc) THEN "update" ELSE "query"
           /\ Executes(p, "Rename", "query") =>
                 IF "edit" \in ActivePerms(c.doc, c.caller)
                 THEN c.pc = "update"
                 ELSE c.pc = "done" /\ c.err = ErrAccessDenied

C5_Effect ==
    \A p \in Observed :
        LET c == proc'[p]
        IN /\ Executes(p, "Rename", "update") =>
                 /\ c.pc = "done" /\ c.err = ErrNil
                 /\ documents'[c.doc].name = c.name
                 /\ documents'[c.doc].updated_at = TimeAt(now)
           /\ proc[p].op = "Rename" \/ Calls(p, "Rename") =>
                 (c.pc = "done" /\ c.err = ErrAccessDenied /\ proc[p].pc # "done"
                     => documents' = documents)

C5_Theorem == [][C5_Decision /\ C5_Effect]_vars

\* Rename by the holder of an active edit share has set the name.
C5_Witness ==
    /\ Returned("p1", "Rename") /\ proc["p1"].err = ErrNil /\ proc["p1"].saw = "edit"
    /\ ~Owns(proc["p1"].caller, proc["p1"].doc)
    /\ documents[proc["p1"].doc].name = proc["p1"].name
----------------------------------------------------------------------------
\* C6: Delete(D, caller) by a user who is not D's owner, a holder of a view
\* or edit share included, returns AccessDenied in its first step, and that
\* step changes nothing: the documents table (deleted_at), the stored
\* content and the share rows are as before, so GetByID still finds D.
C6_Theorem ==
    [][\A p \in Observed :
          LET c == proc'[p]
          IN Calls(p, "Delete") /\ Live(c.doc) /\ ~Owns(c.caller, c.doc) =>
                /\ c.pc = "done" /\ c.err = ErrAccessDenied
                /\ documents' = documents /\ files' = files /\ shares' = shares
                /\ GetByIDFound(documents', c.doc)]_vars

\* Delete by the holder of an active edit share was denied; the document is
\* live and its content is in place.
C6_Witness ==
    /\ Returned("p1", "Delete") /\ proc["p1"].err = ErrAccessDenied
    /\ "edit" \in ActivePerms(proc["p1"].doc, proc["p1"].caller)
    /\ Live(proc["p1"].doc) /\ FilePathOf(proc["p1"].doc) \in files

----------------------------------------------------------------------------
\* C7: a Delete that returned nil has set deleted_at; deleted_at, once set,
\* stays set; every call of GetByID, CanAccess, GetFilePath, Rename, Share,
\* RemoveShare or Delete that starts on a document whose deleted_at is set
\* returns DocumentNotFound, whoever calls; and the last step of Delete
\* returns nil whether os.Remove removed the content or failed.
DocOps == {"GetByID", "CanAccess", "GetFilePath", "Rename", "Share", "RemoveShare", "Delete"}

C7_Deleted ==
    \A p \in Observed :
        Returned(p, "Delete") /\ proc[p].err = ErrNil =>
            documents[proc[p].doc].deleted_at.valid

C7_Steps ==
    /\ \A d \in DOMAIN documents :
          documents[d].deleted_at.valid =>
              d \in DOMAIN documents' /\ documents'[d].deleted_at.valid
    /\ \A p \in Procs :
          Executes(p, "Delete", "update") => documents'[proc[p].doc].deleted_at.valid
    /\ \A p \in Observed :
          LET c == proc'[p]
          IN /\ Executes(p, "Delete", "remove") => c.pc = "done" /\ c.err = ErrNil
             /\ \A op \in DocOps :
                   /\ Calls(p, op)
                   /\ c.doc \in DOMAIN documents
                   /\ documents[c.doc].deleted_at.valid
                   => c.pc = "done" /\ c.err = ErrDocumentNotFound

C7_Theorem == []C7_Deleted /\ [][C7_Steps]_vars

\* GetByID has failed with DocumentNotFound on a deleted document whose
\* content is still in the upload directory (os.Remove failed).
C7_Witness ==
    /\ Returned("p1", "GetByID") /\ proc["p1"].err = ErrDocumentNotFound
    /\ proc["p1"].doc \in DOMAIN documents
    /\ documents[proc["p1"].doc].deleted_at.valid
    /\ FilePathOf(proc["p1"].doc) \in files
    /\ proc["p2"].pc = "idle"

----------------------------------------------------------------------------
\* C8: Share returns DocumentNotFound when D is absent or soft-deleted,
\* AccessDenied when D is live and the caller is not its owner (an edit share
\* does not help), UserNotFound when the owner names an email no user has;
\* only the call of the owner with a registered email reaches the upsert, and
\* every step in which Share returns an error leaves the share rows as they
\* were.
C8_Theorem ==
    [][\A p \in Observed :
          LET c == proc'[p]
              known == \E u \in users : u.email = c.target
          IN /\ Calls(p, "Share") =>
                   /\ ~Live(c.doc) => c.pc = "done" /\ c.err = ErrDocumentNotFound
                   /\ Live(c.doc) /\ ~Owns(c.caller, c.doc) =>
                          c.pc = "done" /\ c.err = ErrAccessDenied
                   /\ Live(c.doc) /\ Owns(c.caller, c.doc) /\ ~known =>
                          c.pc = "done" /\ c.err = ErrUserNotFound
                   /\ Live(c.doc) /\ Owns(c.caller, c.doc) /\ known => c.pc = "upsert"
             /\ c.op = "Share" /\ c.pc = "done" /\ c.err # ErrNil /\ proc[p].pc # "done" =>
                   shares' = shares]_vars

\* Share by the holder of an active edit share was denied.
C8_Witness ==
    /\ Returned("p1", "Share") /\ proc["p1"].err = ErrAccessDenied
    /\ "edit" \in ActivePerms(proc["p1"].doc, proc["p1"].caller)
    /\ Live(proc["p1"].doc)

----------------------------------------------------------------------------
----------------------------------------------------------------------------
\* C10: with an active view share, V's GetFilePath returns the path and V's
\* Rename returns AccessDenied; the DELETE of the owner's RemoveShare(D,
\* owner, V) leaves no row of V on D and returns nil when there was one; a
\* pair without a row gets one only by the upsert of a Share for that pair;
\* and while V has no row on D, CanAccess(D, V) returns (false, "") and
\* GetFilePath(D, V) AccessDenied.
C10_ViewOnly ==
    \A p \in Observed :
        LET c == proc'[p]
        IN ActivePerms(c.doc, c.caller) = {"view"} =>
              /\ Executes(p, "GetFilePath", "count") =>
                    c.pc = "done" /\ c.err = ErrNil /\ c.path = FilePathOf(c.doc)
              /\ Executes(p, "Rename", "query") =>
                    c.pc = "done" /\ c.err = ErrAccessDenied /\ documents' = documents

C10_Revoke ==
    /\ \A p \in Procs :
          Executes(p, "RemoveShare", "delete") =>
              ShareRows(shares', proc[p].doc, proc[p].uid) = {}
    /\ \A p \in Observed :
          Executes(p, "RemoveShare", "delete") /\ ShareRows(shares, proc[p].doc, proc[p].uid) # {} =>
              proc'[p].err = ErrNil
    /\ \A d \in DocIds, u \in UserIds :
          /\ ShareRows(shares, d, u) = {}
          /\ ~\E p \in Procs : Executes(p, "Share", "upsert") /\ proc[p].doc = d /\ proc[p].uid = u
          => ShareRows(shares', d, u) = {}

C10_DeniedWithoutRow ==
    \A p \in Observed :
        LET c == proc'[p]
        IN ShareRows(shares, c.doc, c.caller) = {} =>
              /\ Executes(p, "CanAccess", "query") =>
                    c.pc = "done" /\ ~c.allowed /\ c.level = "" /\ c.err = ErrNil
              /\ Executes(p, "GetFilePath", "count") =>
                    c.pc = "done" /\ c.err = ErrAccessDenied /\ c.path = NoPath

C10_Theorem == [][C10_ViewOnly /\ C10_Revoke /\ C10_DeniedWithoutRow]_vars

\* The owner has revoked V's view share and V's download is at its access
\* check, with no row of V on the document.
C10_Witness ==
    /\ Returned("p1", "RemoveShare") /\ proc["p1"].err = ErrNil /\ proc["p1"].saw = "view"
    /\ proc["p1"].uid # proc["p1"].caller
    /\ proc["p2"].op = "GetFilePath" /\ proc["p2"].pc = "count"
    /\ proc["p2"].doc = proc["p1"].doc /\ proc["p2"].caller = proc["p1"].uid
    /\ ShareRows(shares, proc["p1"].doc, proc["p1"].uid) = {}
----------------------------------------------------------------------------
\* C11: in every reachable state no share row has as recipient
\* (shared_with_id) the owner of its document, so a Share called with the
\* owner's own email creates no row.
C11_NoSelfShare ==
    \A r \in shares : ~Owns(r.shared_with_id, r.document_id)

----------------------------------------------------------------------------
\* C12: a share request whose permission is not exactly "view" or "edit"
\* ends as a validation error in the step that receives it and changes no
\* share row, and in every reachable state the permission of every share
\* row is "view" or "edit".
C12_RowsValid ==
    \A r \in shares : r.permission \in {"view", "edit"}

C12_Rejects ==
    \A p \in Observed :
        /\ proc[p].pc = "idle" /\ proc'[p].pc # "idle"
        /\ proc'[p].op \in {"Share", "ShareDocument"}
        /\ proc'[p].perm \notin {"view", "edit"}
        => /\ proc'[p].pc = "done"
           /\ proc'[p].err = ErrValidation
           /\ shares' = shares

C12_Theorem == []C12_RowsValid /\ [][C12_Rejects]_vars

\* A request with permission "admin" on a document that has a share row was
\* rejected as a validation error.
C12_Witness ==
    /\ Returned("p1", "ShareDocument") /\ proc["p1"].err = ErrValidation
    /\ proc["p1"].perm = "admin"
    /\ Owns(proc["p1"].caller, proc["p1"].doc)
    /\ \E r \in shares : r.document_id = proc["p1"].doc
----------------------------------------------------------------------------
\* C13: in every reachable state, for every document D and user U,
\* GetFilePath(D, U) returns the storage path iff CanAccess(D, U) returns
\* allowed with level owner, edit or view, returns AccessDenied iff CanAccess
\* returns (false, ""), and returns DocumentNotFound iff CanAccess does; and
\* the calls return what these functions give on the state their last
\* statement runs on.
C13_Agree ==
    \A d \in DocIds, u \in UserIds :
        LET g == GetFilePath(documents, shares, now, d, u)
            cs == CanAccess(documents, shares, now, d, u)
        IN /\ cs # {}
           /\ \A c \in cs :
                /\ (g.err = ErrNil /\ g.path = FilePathOf(d))
                      <=> (c.err = ErrNil /\ c.allowed /\ c.level \in {"owner", "edit", "view"})
                /\ (g.err = ErrAccessDenied)
                      <=> (c.err = ErrNil /\ ~c.allowed /\ c.level = "")
                /\ (g.err = ErrDocumentNotFound) <=> (c.err = ErrDocumentNotFound)
                /\ g.err \in {ErrNil, ErrAccessDenied, ErrDocumentNotFound}

C13_CallsReturnIt ==
    \A p \in Observed :
        LET c == proc'[p]
        IN /\ (Calls(p, "GetFilePath") \/ Executes(p, "GetFilePath", "count")) /\ c.pc = "done" =>
                 [path |-> c.path, err |-> c.err] = GetFilePath(documents, shares, now, c.doc, c.caller)
           /\ (Calls(p, "CanAccess") \/ Executes(p, "CanAccess", "query")) /\ c.pc = "done" =>
                 [allowed |-> c.allowed, level |-> c.level, err |-> c.err]
                    \in CanAccess(documents, shares, now, c.doc, c.caller)

C13_Theorem == []C13_Agree /\ [][C13_CallsReturnIt]_vars

\* A download by the holder of an active view share returned the path, and
\* CanAccess gives (true, "view") for the same pair on the same state.
C13_Witness ==
    /\ Returned("p1", "GetFilePath") /\ proc["p1"].err = ErrNil
    /\ ~Owns(proc["p1"].caller, proc["p1"].doc)
    /\ proc["p1"].saw = "view"
    /\ [allowed |-> TRUE, level |-> "view", err |-> ErrNil]
          \in CanAccess(documents, shares, now, proc["p1"].doc, proc["p1"].caller)
----------------------------------------------------------------------------
\* C14: a token produced by GenerateToken(u.id, u.email) validates under the
\* same secret to exactly {u.id, u.email} at every time inside its validity
\* window (from issuance until 24 hours later), and ValidateToken returns
\* ExpiredToken for that token at every time after the window has elapsed.
C14_Theorem ==
    resp.op = "ValidateToken" =>
        \A i \in issued :
            resp.token = i.token /\ resp.secret = i.secret =>
                /\ (i.at <= resp.at /\ resp.at < i.at + TokenTTL) =>
                      resp.result = [err |-> ErrNil, user_id |-> i.user_id, email |-> i.email]
                /\ resp.at > i.at + TokenTTL => resp.result.err = ErrExpiredToken

\* A token issued at 0 was presented under its own secret after its window
\* had elapsed and was answered with ExpiredToken.
C14_Witness ==
    /\ resp.op = "ValidateToken"
    /\ \E i \in issued :
          /\ resp.token = i.token /\ resp.secret = i.secret
          /\ resp.at > i.at + TokenTTL
    /\ resp.result.err = ErrExpiredToken

----------------------------------------------------------------------------
\* C15: ValidateToken returns InvalidToken, never ExpiredToken or success,
\* for every token that is empty, malformed, signed with a different secret
\* or carries the none algorithm, whatever its expiry claim; and it returns
\* ExpiredToken only for a token whose structure and signature are valid.
C15_Theorem ==
    resp.op = "ValidateToken" =>
        LET tok == resp.token
            wellFormed == tok.shape = "jwt"
        IN /\ ~wellFormed => resp.result = TokenErr(ErrInvalidToken)
           /\ wellFormed /\ (tok.alg = "none" \/ tok.sig.key # resp.secret) =>
                 resp.result = TokenErr(ErrInvalidToken)
           /\ resp.result.err = ErrExpiredToken =>
                 /\ wellFormed
                 /\ tok.alg = "HS256"
                 /\ tok.sig = HMAC(resp.secret, tok.claims)

\* A token whose expiry claim has passed, signed with another secret than
\* the validating one, was answered with InvalidToken.
C15_Witness ==
    /\ resp.op = "ValidateToken"
    /\ resp.token.shape = "jwt" /\ resp.token.alg = "HS256"
    /\ resp.token.sig = HMAC(resp.token.sig.key, resp.token.claims)
    /\ resp.token.sig.key \in Secrets \ {resp.secret}
    /\ resp.at > resp.token.claims.exp
    /\ resp.result.err = ErrInvalidToken

----------------------------------------------------------------------------
\* C16: Authenticate lets a request through to the next handler, with the
\* token's {userID, email} bound in the context, iff the header is the
\* scheme "bearer" in any letter case, one space and exactly one token that
\* validates; every other header (absent, no scheme, other scheme, scheme
\* only, empty token, extra segment, invalid or expired token) is answered
\* 401, aborted, with no identity bound and the handler not run.
C16_Theorem ==
    resp.op = "Authenticate" =>
        LET h == resp.header
            r == resp.result
            bearer == /\ Len(h) = 2
                      /\ h[1].shape = "word"
                      /\ h[1].text \in {"Bearer", "bearer", "BEARER"}
            good == bearer /\ ValidateToken(resp.secret, h[2], resp.at).err = ErrNil
        IN /\ r.next <=> good
           /\ good => /\ r.status = 200 /\ ~r.aborted
                       /\ r.user_id = h[2].claims.user_id
                       /\ r.user_email = h[2].claims.email
           /\ ~good => /\ r.status = 401 /\ r.aborted
                        /\ r.user_id = "" /\ r.user_email = ""

\* A request with the header "bearer <token>", the token issued under the
\* secret of the gate and still valid, reached the handler.
C16_Witness ==
    /\ resp.op = "Authenticate"
    /\ Len(resp.header) = 2
    /\ resp.header[1] = Word("bearer")
    /\ \E i \in issued : resp.header[2] = i.token /\ resp.secret = i.secret
    /\ resp.result.next
    /\ resp.result.user_id # ""
----------------------------------------------------------------------------
----------------------------------------------------------------------------
\* C18: under any interleaving of concurrent Create calls no two stored
\* users share an email, and every Create whose email is already registered
\* when its INSERT is attempted fails with UserExists, answered 409 by
\* Register, never with another error kind.  (Stated for passwords bcrypt
\* accepts, so that the hash is not what fails.)
C18_UniqueEmails ==
    \A u, v \in users : u.email = v.email => u = v

C18_Claim ==
    /\ []C18_UniqueEmails
    /\ [][\A p \in Observed :
            /\ Executes(p, "Register", "insert")
            /\ UsersByEmail(users, proc[p].email) # {}
            /\ Len(proc[p].password) <= BcryptMaxLen
            => /\ proc'[p].err = ErrUserExists
               /\ proc'[p].http.status = 409]_vars

----------------------------------------------------------------------------
\* C19: Login answers an unknown email and a known email with a wrong
\* password with the same response (401, the same error code and message),
\* while Authenticate returns UserNotFound in the first case and
\* InvalidPassword in the second, two distinct errors.
C19_Theorem ==
    /\ [](ErrUserNotFound # ErrInvalidPassword)
    /\ [][\A p \in Observed :
            Calls(p, "Login") =>
                LET c == proc'[p]
                    found == UsersByEmail(users, c.email)
                IN /\ found = {} => c.err = ErrUserNotFound
                   /\ (found # {} /\ \A u \in found : ~CompareHashAndPassword(u.password, c.password))
                         => c.err = ErrInvalidPassword
                   /\ c.err \in {ErrUserNotFound, ErrInvalidPassword} =>
                         c.http = [status |-> 401, error |-> "invalid_credentials",
                                   message |-> "Invalid email or password"]
                   /\ c.err = ErrNil => c.http.status = 200]_vars

\* A login with a wrong password for a registered email was answered 401
\* invalid_credentials while the other email is not registered.
C19_Witness ==
    /\ Returned("p1", "Login") /\ proc["p1"].err = ErrInvalidPassword
    /\ proc["p1"].http.status = 401
    /\ UsersByEmail(users, proc["p1"].email) # {}
    /\ \E email \in RegEmails : UsersByEmail(users, email) = {}
----------------------------------------------------------------------------
\* C20 as claimed: in GetByOwner and GetSharedWithUser a page below 1 is
\* replaced by 1, a page size outside (1, 100] is replaced by 20 and one
\* inside it is used unchanged, and the query runs with limit = size and
\* offset = (page - 1) * size (the product of the program's ints).
C20_Original ==
    resp.op \in {"GetByOwner", "GetSharedWithUser"} =>
        LET page == IF resp.page < 1 THEN 1 ELSE resp.page
            size == IF resp.perPage > 1 /\ resp.perPage <= 100 THEN resp.perPage ELSE 20
        IN resp.query = [limit |-> size, offset |-> Wrap((page - 1) * size)]

\* C20 as amended: the page size is replaced by 20 outside [1, 100] (a size
\* of 1 is used unchanged), and the offset is (page - 1) * size as the int
\* arithmetic of the program computes it, wrapping around on overflow.
C20_Theorem ==
    resp.op \in {"GetByOwner", "GetSharedWithUser"} =>
        LET page == IF resp.page < 1 THEN 1 ELSE resp.page
            size == IF resp.perPage >= 1 /\ resp.perPage <= 100 THEN resp.perPage ELSE 20
        IN /\ resp.query.limit = size
           /\ resp.query.offset = Wrap((page - 1) * size)
           /\ (page - 1) * size <= MaxInt => resp.query.offset = (page - 1) * size

\* GetByOwner was called with page 3 and page size 1 and ran its query
\* with LIMIT 1 OFFSET 2.
C20_Witness ==
    /\ resp.op = "GetByOwner"
    /\ resp.page = 3 /\ resp.perPage = 1
    /\ resp.query = [limit |-> 1, offset |-> 2]
----------------------------------------------------------------------------
\* C21: for every value of the page and per_page query parameters (left out,
\* not a number, zero, negative, above 100, out of the range of int)
\* ListDocuments and ListSharedDocuments answer 200 with a paginated response
\* whose page, per_page and total_pages are computed from the clamped values
\* (page below 1 read as 1, per_page outside [1, 100] read as 20). The code
\* violates this statement.
Listed == resp.op \in {"ListDocuments", "ListSharedDocuments"}

\* total rows in pages of size rows
PagesOf(total, size) == (total + size - 1) \div size

C21_Claim ==
    Listed =>
        LET page == ClampPage(Atoi(resp.page, 1))
            size == ClampPerPage(Atoi(resp.per_page, DefaultPerPage))
        IN /\ resp.http.status = 200
           /\ resp.http.page = page
           /\ resp.http.per_page = size
           /\ resp.http.total_pages = PagesOf(resp.total, size)

----------------------------------------------------------------------------
\* C22: whenever DocumentService.Create returns an error after it started
\* to write the content (the copy failed or the INSERT failed), the content
\* it wrote is gone when it returns: the upload directory is as it was before
\* the call; and in every reachable state every content object in the upload
\* directory is the file of a document row.
Uploaded == resp.op = "none" /\ resp'.op = "UploadDocument"

RowPaths == {FilePathOf(d) : d \in DOMAIN documents}

----------------------------------------------------------------------------
\* C23: a Create whose content type, once its parameters are dropped and it
\* is lower-cased and trimmed, is not in the allow-list is rejected with the
\* tables and the upload directory unchanged (no content written, no row
\* stored); so every document row carries a content type that normalises to
\* an allow-listed type.
Listable(contentType) ==
    Len(MediaType(contentType)) = 1 /\ MediaType(contentType)[1] \in AllowedMIMETypes

C23_Theorem ==
    [][/\ Uploaded /\ ~Listable(resp'.in.content_type) =>
              /\ resp'.err = "invalid file type"
              /\ files' = files
              /\ documents' = documents
       /\ \A d \in DOMAIN documents' : Listable(documents'[d].mime_type)]_vars

\* the upload of an executable has been rejected and nothing is stored
C23_Witness ==
    /\ resp.op = "UploadDocument"
    /\ resp.in.content_type = <<"application/x-executable">>
    /\ resp.fault = "none"
    /\ resp.err = "invalid file type"
    /\ documents = <<>>
    /\ files = {}

----------------------------------------------------------------------------
\* C24: when the existing-user lookup inside UserService.Create fails with
\* a storage error, Create returns an error and stores no user: the INSERT
\* step of such a call leaves the users table unchanged and the call ends in
\* an error. The code violates this statement.
C24_Claim ==
    [][\A p \in Observed :
            Executes(p, "Register", "insert") /\ proc[p].lookup = "failed"
            => /\ users' = users
               /\ proc'[p].err # ErrNil]_vars

----------------------------------------------------------------------------
\* C25: there is a reachable interleaving in which the owner's
\* RemoveShare(D, owner, V) completes after V's Rename passed its CanAccess
\* check and before its name update (C25_Witness is that state), and the
\* rename still takes effect: the name update of a Rename whose caller is not
\* the owner and has no share row on the document at that moment writes the
\* caller's name and the call returns nil.
Unshared(c) ==
    /\ c.doc \in DOMAIN documents
    /\ documents[c.doc].owner_id # c.caller
    /\ ShareRows(shares, c.doc, c.caller) = {}

C25_Theorem ==
    [][\A p \in Procs :
          Executes(p, "Rename", "update") /\ Unshared(proc[p]) =>
              /\ documents'[proc[p].doc].name = proc[p].name
              /\ p \in Observed => proc'[p].pc = "done" /\ proc'[p].err = ErrNil]_vars

\* The owner's RemoveShare has removed V's edit share and returned nil while
\* V's Rename, past its access check, is about to update the name to one the
\* document does not have.
C25_Witness ==
    /\ Returned("p1", "RemoveShare") /\ proc["p1"].err = ErrNil /\ proc["p1"].saw = "edit"
    /\ Owns(proc["p1"].caller, proc["p1"].doc)
    /\ proc["p2"].op = "Rename" /\ proc["p2"].pc = "update"
    /\ proc["p2"].doc = proc["p1"].doc /\ proc["p2"].caller = proc["p1"].uid
    /\ proc["p2"].level = "edit"
    /\ Unshared(proc["p2"])
    /\ documents[proc["p2"].doc].name # proc["p2"].name

----------------------------------------------------------------------------
\* C26: under any interleaving of DownloadDocument with a concurrent Delete
\* the download ends in a defined response (the content, 404 or 403): it
\* never ends in the dereference of the metadata that its second lookup,
\* after a successful GetFilePath, failed to return. The code violates this
\* statement.
C26_Claim ==
    \A p \in Observed :
        Returned(p, "DownloadDocument") =>
            /\ proc[p].err # ErrNilDocument
            /\ DownloadStatus(proc[p].err) \in {200, 404, 403}

----------------------------------------------------------------------------
\* C27: once a document is soft-deleted its metadata is frozen: under any
\* interleaving of Rename, Share and Delete, no step changes the name of a
\* document whose deleted_at is already set, and no step creates or updates a
\* share row of such a document. The code violates this statement.
SharesOn(sh, d) == {r \in sh : r.document_id = d}

C27_Claim ==
    [][\A d \in DOMAIN documents :
          documents[d].deleted_at.valid =>
              /\ documents'[d].name = documents[d].name
              /\ SharesOn(shares', d) \subseteq SharesOn(shares, d)]_vars

----------------------------------------------------------------------------
\* C28: for every user V, the documents GetSharedWithUser(V) returns, and
\* the number it counts, are exactly the documents D for which
\* CanAccess(D, V) returns (true, "view") or (true, "edit"). The code
\* violates this statement on a document its owner has shared with
\* themselves (C11).
Listing(u) == {r.document_id : r \in SharedRows(documents, shares, now, u)}

Granted(u) ==
    {d \in DocIds : \E a \in CanAccess(documents, shares, now, d, u) :
                        a.err = ErrNil /\ a.allowed /\ a.level \in Perms}

C28_Claim ==
    \A u \in UserIds :
        /\ Listing(u) = Granted(u)
        /\ Cardinality(SharedRows(documents, shares, now, u)) = Cardinality(Granted(u))

\* the part that holds: the two agree on every document the user does not own
C28_NotOwned ==
    \A u \in UserIds : \A d \in DocIds :
        ~Owns(u, d) => (d \in Listing(u) <=> d \in Granted(u))

----------------------------------------------------------------------------
\* C29: after any sequence of Create and Rename calls every stored display
\* name satisfies the postcondition of the sanitisation: it is not empty, is
\* neither "." nor "..", holds no path separator and no null byte, and is no
\* longer than the limit. The code violates this statement: Rename stores the
\* name it is given.
Sanitized(n) ==
    /\ n # <<>>
    /\ n # <<".">>
    /\ n # <<".", ".">>
    /\ \A i \in 1..Len(n) : n[i] \notin {"/", "\\", "NUL"}
    /\ Len(n) <= MaxNameLen

C29_Claim == \A d \in DOMAIN documents : Sanitized(documents[d].name)

\* the half that holds: the names a Create stores are sanitized
C29_CreateNames ==
    [][Uploaded => \A d \in DOMAIN documents' :
                       Sanitized(documents'[d].name) /\ Sanitized(documents'[d].original_name)]_vars

----------------------------------------------------------------------------
\* C30: Delete(D, owner) leaves every share row on D in place (no step of a
\* Delete changes document_shares), yet every user is cut off from the
\* deleted document: CanAccess and GetFilePath return DocumentNotFound, a
\* Rename called on it fails with DocumentNotFound, and D is neither listed
\* nor counted by GetSharedWithUser.
C30_Frame ==
    \A p \in Procs : proc[p].op = "Delete" /\ proc'[p] # proc[p] => shares' = shares

C30_CutOff ==
    \A d \in DOMAIN documents : \A u \in UserIds :
        documents[d].deleted_at.valid =>
            /\ CanAccess(documents, shares, now, d, u) =
                   {[allowed |-> FALSE, level |-> "", err |-> ErrDocumentNotFound]}
            /\ GetFilePath(documents, shares, now, d, u) =
                   [path |-> NoPath, err |-> ErrDocumentNotFound]
            /\ d \notin Listing(u)
            /\ \A r \in SharedRows(documents, shares, now, u) : r.document_id # d

C30_Calls ==
    \A p \in Observed :
        /\ \A op \in {"CanAccess", "GetFilePath", "Rename"} :
              /\ Calls(p, op)
              /\ proc'[p].doc \in DOMAIN documents
              /\ documents[proc'[p].doc].deleted_at.valid
              => /\ proc'[p].pc = "done"
                 /\ proc'[p].err = ErrDocumentNotFound
                 /\ documents' = documents
        /\ Calls(p, "GetSharedWithUser") =>
              proc'[p].total = Cardinality({r \in shares :
                                   /\ r.shared_with_id = proc'[p].caller
                                   /\ NotExpired(r, now)
                                   /\ Live(r.document_id)})
        /\ Executes(p, "GetSharedWithUser", "rows") =>
              \A d \in proc'[p].list : Live(d)

C30_Theorem == [][C30_Frame /\ C30_CutOff' /\ C30_Calls]_vars

\* V holds an active edit share on a deleted document of another user and
\* V's Rename of it has returned DocumentNotFound.
C30_Witness ==
    /\ Returned("p1", "Rename") /\ proc["p1"].err = ErrDocumentNotFound
    /\ proc["p1"].doc \in DOMAIN documents
    /\ documents[proc["p1"].doc].deleted_at.valid
    /\ documents[proc["p1"].doc].owner_id # proc["p1"].caller
    /\ \E r \in ShareRows(shares, proc["p1"].doc, proc["p1"].caller) :
           r.permission = "edit" /\ NotExpired(r, now)

====
